---- MODULE Spec2Model ----
(***************************************************************************)
(* ScopeBufferedSSAGraphExecutor                                           *)
(* (paddle/fluid/framework/details/scope_buffered_ssa_graph_executor.cc).  *)
(*                                                                         *)
(* The executor wraps an underlying SSA graph executor.  It keeps, for     *)
(* every worker, a persistent scope (local_scopes_[i]) and a transient     *)
(* scope (local_exec_scopes_[i]); the transient scopes are reclaimed every *)
(* num_iteration_per_drop_scope_ calls of Run.                             *)
(*                                                                         *)
(* Scopes live in a heap (scopes) addressed by scope ids, the model of     *)
(* Scope*.  A Variable* is a handle: the id field of the variable          *)
(* it points to, unique among the live variables of its scope.             *)
(***************************************************************************)
EXTENDS Integers, Sequences, FiniteSets, TLC

\* ---------------------------------------------------------------- bounds
MaxW == 2
MaxK == 3
MaxSteps == 4
MaxExtDrops == 1
MaxInfos == 3

\* ------------------------------------------------------- value universe
LOD_TENSOR == "LOD_TENSOR"
SELECTED_ROWS == "SELECTED_ROWS"
LOD_TENSOR_ARRAY == "LOD_TENSOR_ARRAY"
NoType == "none"

NullErr == "null"
EngineErrors == {"E1"}
SyncError == "SyncError"
OpError == "OpError"
EnforceNotMet == "EnforceNotMet"
Outputs == {"o1", "o2"}

TmpName == "tmp"
KidVarName == "k"

\* the allocation a caller's pre-seeded persistent variable holds
SeedAlloc == 0 - 1

Min(S) == CHOOSE x \in S : \A y \in S : x <= y

\* ------------------------------------------------ Variable (variable.h)
\* a Variable with no holder
NewVariable(id) == [id |-> id, type |-> NoType, holders |-> << >>]

\* Variable::Clear(): the holder is released, the Variable object stays
VariableClear(v) == [v EXCEPT !.type = NoType, !.holders = << >>]

\* the empty value of a type: a tensor with a null holder (0), an empty array
EmptyHolders(type) == IF type = LOD_TENSOR_ARRAY THEN << >> ELSE << 0 >>

\* InitializeVariable(var, type): var is put in the empty state of `type`
InitializeVariable(v, type) == [v EXCEPT !.type = type, !.holders = EmptyHolders(type)]

\* an operator writing allocation a into a variable (an untyped one becomes dense)
WritePayload(v, a) ==
    [v EXCEPT !.type = IF @ = NoType THEN LOD_TENSOR ELSE @, !.holders = << a >>]

\* ------------------------------------------------------ Scope (scope.h)
EmptyVars == [n \in {} |-> NewVariable(0)]
EmptyScope == [vars |-> EmptyVars, kids |-> {}]

LiveIds(scope) == {scope.vars[n].id : n \in DOMAIN scope.vars}

\* the address of a newly allocated Variable: any address not in use
FreshId(scope) == Min((1 .. Cardinality(DOMAIN scope.vars) + 1) \ LiveIds(scope))

\* Scope::FindVar(name) # nullptr
HasVar(scope, name) == name \in DOMAIN scope.vars

\* Scope::Var(name): find locally or create
ScopeVar(scope, name) ==
    IF HasVar(scope, name) THEN scope
    ELSE [scope EXCEPT !.vars = (name :> NewVariable(FreshId(scope))) @@ @]

\* the handle Scope::Var(name) returns
HandleOf(scope, name) == ScopeVar(scope, name).vars[name].id

\* handle h points to a live variable of the scope
IsLive(scope, h) == h \in LiveIds(scope)

NameOfHandle(scope, h) == CHOOSE n \in DOMAIN scope.vars : scope.vars[n].id = h

\* *h = f(*h); writing through a handle whose variable was erased touches nothing
\* the model tracks (the access itself is recorded by the callers in ub)
UpdateHandle(scope, h, F(_)) ==
    IF IsLive(scope, h)
    THEN [scope EXCEPT !.vars[NameOfHandle(scope, h)] = F(@)]
    ELSE scope

\* Scope::EraseVarsExcept(vars): erase every variable whose address is not in vars
EraseVarsExcept(scope, keep) ==
    [scope EXCEPT !.vars =
        [n \in {m \in DOMAIN scope.vars : scope.vars[m].id \in keep} |-> scope.vars[n]]]

\* Scope::DropKids()
DropKids(scope) == [scope EXCEPT !.kids = {}]

\* ------------------------------------------------------------ the state
VARIABLES
    strategy_,            \* [num_iteration_per_drop_scope_]
    local_scopes_,        \* sequence of scope ids (persistent scopes, may alias)
    local_exec_scopes_,   \* sequence of scope ids (transient scopes)
    var_infos_,           \* sequence of [name_, type_, persistable_]
    places_,              \* sequence of places
    graph_,               \* [has_program_descs, has_fused_vars, fused_vars, program_descs]
    scopes,               \* the heap: scope id -> scope
    preserve_vars_,       \* per worker: set of handles
    tmp_var_infos_,       \* per worker: sequence of <<handle, type>>
    drop_scope_counter_,
    busy,                 \* places with outstanding asynchronous work
    pc,                   \* the position of the control thread
    caller,               \* who called DropLocalExeScopes: "Run" or "ext"
    idx,                  \* the running loop's index
    eptr,                 \* the exception Run captured
    fetch_data,           \* the engine's outputs held by Run
    result,               \* how the last call ended
    ub,                   \* a dangling handle or an out-of-range index was used
    twin,                 \* the bookkeeping of a second executor, same configuration
                          \* and calls, whose engine fails or succeeds on its own
    h                     \* history of the run (observation only)

vars == << strategy_, local_scopes_, local_exec_scopes_, var_infos_, places_, graph_,
           scopes, preserve_vars_, tmp_var_infos_, drop_scope_counter_, busy, pc,
           caller, idx, eptr, fetch_data, result, ub, twin, h >>

config == << strategy_, local_scopes_, local_exec_scopes_, var_infos_, places_, graph_ >>

K == strategy_.num_iteration_per_drop_scope_
NumWorkers == Len(local_exec_scopes_)
Workers == 1 .. NumWorkers


\* --------------------------------------------------------------- inputs
Info(n, t, p) == [name_ |-> n, type_ |-> t, persistable_ |-> p]

\* a declared variable list: a name occurs once per version node of the graph,
\* always with the same type and persistable flag
StepVarInfos ==
    << Info("x", SELECTED_ROWS, FALSE), Info("w", LOD_TENSOR, TRUE),
       Info("y", LOD_TENSOR_ARRAY, FALSE), Info("x", SELECTED_ROWS, FALSE),
       Info("w", LOD_TENSOR, TRUE) >>

\* every declared variable list of at most MaxInfos entries over two names
InfoUniverse ==
    {Info(n, t, p) : n \in {"w", "x"}, t \in {LOD_TENSOR, LOD_TENSOR_ARRAY}, p \in BOOLEAN}
Consistent(infos) ==
    \A a, b \in 1 .. Len(infos) :
        infos[a].name_ = infos[b].name_ => infos[a] = infos[b]
VarInfoChoices ==
    {infos \in UNION {[1 .. n -> InfoUniverse] : n \in 0 .. MaxInfos} : Consistent(infos)}

OpDesc(out) == [out |-> out]

NoGraphAttrs ==
    [has_program_descs |-> FALSE, has_fused_vars |-> FALSE,
     fused_vars |-> {}, program_descs |-> << >>]
\* two fused variables and two sub-programs; the operators write the fused
\* variables and, the last one, the declared non-persistable variable x
FusedGraph ==
    [has_program_descs |-> TRUE, has_fused_vars |-> TRUE,
     fused_vars |-> {"f", "g"},
     program_descs |-> << << OpDesc("f"), OpDesc("g") >>, << OpDesc("x") >> >>]
DescsOnlyGraph ==
    [has_program_descs |-> TRUE, has_fused_vars |-> FALSE,
     fused_vars |-> {}, program_descs |-> << << OpDesc("f") >> >>]
FusedOnlyGraph ==
    [has_program_descs |-> FALSE, has_fused_vars |-> TRUE,
     fused_vars |-> {"f"}, program_descs |-> << >>]
GraphChoices == {NoGraphAttrs, FusedGraph, DescsOnlyGraph, FusedOnlyGraph}

\* scope ids: persistent scopes 1 .. MaxW, transient scopes MaxW+1 .. 2*MaxW
TransientId(i) == MaxW + i

\* a persistent scope the caller filled beforehand with the names in seed
SeededVar(k) == [id |-> k, type |-> SELECTED_ROWS, holders |-> << SeedAlloc >>]
SeedOrder == << "w", "x", "y" >>
SeededScope(seed) ==
    [vars |-> [n \in seed |-> SeededVar(CHOOSE k \in 1 .. Len(SeedOrder) : SeedOrder[k] = n)],
     kids |-> {}]

NoHistory ==
    [nRun |-> 0, nEngine |-> 0, nDrop |-> 0, nExt |-> 0, sinceDrop |-> 0, cycleInits |-> 0,
     call |-> "none", reclaimed |-> FALSE, entry |-> 0, initRan |-> FALSE, initDone |-> FALSE, engineCalled |-> FALSE,
     engine |-> [kind |-> "none"], incremented |-> FALSE, dropFired |-> FALSE,
     dropDone |-> FALSE, justDropped |-> FALSE, waited |-> {}, seeded |-> << >>,
     created |-> << >>, atCtor |-> << >>, ops |-> << >>, resetDone |-> FALSE,
     fusedDone |-> FALSE, initFailed |-> FALSE, prevInitFailed |-> FALSE,
     prevOps |-> << >>, tmpAtCtor |-> << >>, fusedKept |-> TRUE]

\* the state before the constructor runs, for worker counts nw (persistent scopes),
\* ne (transient scopes) and np (places)
InitWith(nw, ne, np, k, infos, seed, share, graph) ==
    /\ strategy_ = [num_iteration_per_drop_scope_ |-> k]
    /\ local_scopes_ = [i \in 1 .. nw |-> IF share THEN 1 ELSE i]
    /\ local_exec_scopes_ = [i \in 1 .. ne |-> TransientId(i)]
    /\ var_infos_ = infos
    /\ places_ = [i \in 1 .. np |-> i]
    /\ graph_ = graph
    /\ scopes = [s \in 1 .. 2 * MaxW |-> IF s <= MaxW THEN SeededScope(seed) ELSE EmptyScope]
    /\ preserve_vars_ = << >>
    /\ tmp_var_infos_ = << >>
    /\ drop_scope_counter_ = 0
    /\ busy = {}
    /\ pc = "new"
    /\ caller = "none"
    /\ idx = 0
    /\ eptr = NullErr
    /\ fetch_data = "none"
    /\ result = [kind |-> "none"]
    /\ ub = FALSE
    /\ twin = [counter |-> 0, eptr |-> NullErr, fired |-> FALSE, inited |-> FALSE,
               preserve |-> << >>]
    /\ h = [NoHistory EXCEPT !.seeded = scopes]

\* ---------------------------------------------------------- construction
\* (mutant) a transient variable is created but not put in the preserved set
PrepareInfo_NoPreserve(st, i, info) ==
    LET sid == local_scopes_[i]
        lid == local_exec_scopes_[i]
    IN  IF info.persistable_
        THEN IF HasVar(st.scopes[sid], info.name_)
             THEN st
             ELSE [st EXCEPT
                     !.scopes[sid] =
                        UpdateHandle(ScopeVar(@, info.name_), HandleOf(@, info.name_),
                                     LAMBDA v : InitializeVariable(v, info.type_)),
                     !.created = Append(@, << sid, info.name_ >>)]
        ELSE LET tmp_var == HandleOf(st.scopes[lid], info.name_)
             IN  [st EXCEPT
                     !.created = IF HasVar(st.scopes[lid], info.name_) THEN @
                                 ELSE Append(@, << lid, info.name_ >>),
                     !.scopes[lid] = ScopeVar(@, info.name_),
                     !.tmp[i] = Append(@, << tmp_var, info.type_ >>)]

\* (mutant) a persistable variable is created and initialized without the lookup
PrepareInfo_NoLookup(st, i, info) ==
    LET sid == local_scopes_[i]
        lid == local_exec_scopes_[i]
    IN  IF info.persistable_
        THEN [st EXCEPT
                !.scopes[sid] =
                   UpdateHandle(ScopeVar(@, info.name_), HandleOf(@, info.name_),
                                LAMBDA v : InitializeVariable(v, info.type_)),
                !.created = Append(@, << sid, info.name_ >>)]
        ELSE LET tmp_var == HandleOf(st.scopes[lid], info.name_)
             IN  [st EXCEPT
                     !.created = IF HasVar(st.scopes[lid], info.name_) THEN @
                                 ELSE Append(@, << lid, info.name_ >>),
                     !.scopes[lid] = ScopeVar(@, info.name_),
                     !.preserve[i] = @ \cup {tmp_var},
                     !.tmp[i] = Append(@, << tmp_var, info.type_ >>)]

\* lines 183-198: one VariableInfo of worker idx; st = [scopes, preserve, tmp, created]
PrepareInfo(st, i, info) ==
    LET sid == local_scopes_[i]
        lid == local_exec_scopes_[i]
    IN  IF info.persistable_
        THEN IF HasVar(st.scopes[sid], info.name_)
             THEN st
             ELSE [st EXCEPT
                     !.scopes[sid] =
                        UpdateHandle(ScopeVar(@, info.name_), HandleOf(@, info.name_),
                                     LAMBDA v : InitializeVariable(v, info.type_)),
                     !.created = Append(@, << sid, info.name_ >>)]
        ELSE LET tmp_var == HandleOf(st.scopes[lid], info.name_)
             IN  [st EXCEPT
                     !.created = IF HasVar(st.scopes[lid], info.name_) THEN @
                                 ELSE Append(@, << lid, info.name_ >>),
                     !.scopes[lid] = ScopeVar(@, info.name_),
                     !.preserve[i] = @ \cup {tmp_var},
                     !.tmp[i] = Append(@, << tmp_var, info.type_ >>)]

RECURSIVE PrepareInfos(_, _, _)
PrepareInfos(st, i, k) ==
    IF k > Len(var_infos_) THEN st
    ELSE PrepareInfos(PrepareInfo(st, i, var_infos_[k]), i, k + 1)

\* lines 178-199: the workers, last to first
RECURSIVE PrepareWorkers(_, _)
PrepareWorkers(st, i) ==
    IF i < 1 THEN st ELSE PrepareWorkers(PrepareInfos(st, i, 1), i - 1)

\* lines 173-200, on the scopes sc
PrepareLocalExeScopes(sc) ==
    PrepareWorkers([scopes |-> sc,
                    preserve |-> [i \in 1 .. Len(local_scopes_) |-> {}],
                    tmp |-> [i \in 1 .. Len(local_scopes_) |-> << >>],
                    created |-> << >>],
                   Len(local_scopes_))

\* line 78
SizesEnforced == Len(local_scopes_) = Len(local_exec_scopes_)

\* lines 67-80
Construct ==
    /\ pc = "new"
    /\ IF SizesEnforced
       THEN LET st == PrepareLocalExeScopes(scopes)
            IN  /\ scopes' = st.scopes
                /\ preserve_vars_' = st.preserve
                /\ tmp_var_infos_' = st.tmp
                /\ twin' = [twin EXCEPT !.preserve = st.preserve]
                /\ h' = [h EXCEPT !.created = st.created, !.atCtor = st.scopes,
                                  !.tmpAtCtor = st.tmp]
                /\ pc' = "idle"
                /\ result' = [kind |-> "return", value |-> "constructed"]
       ELSE /\ pc' = "ctor_failed"
            /\ result' = [kind |-> "throw", what |-> EnforceNotMet]
            /\ UNCHANGED << scopes, preserve_vars_, tmp_var_infos_, twin, h >>
    /\ UNCHANGED << config, drop_scope_counter_, busy, caller, idx, eptr, fetch_data, ub >>


\* ------------------------------------------------------------------ Run
\* lines 202-204
NeedCreateLocalExeScope == drop_scope_counter_ = 0

\* (mutant) the initializer is run on every step
MustInit_EveryStep(c) == TRUE

\* line 84, for an executor whose counter is c
MustInit(c) == c = 0

RunMustInit == MustInit(drop_scope_counter_)

\* (mutant) a failed step is not counted
CounterAfterStep_OnlyOnSuccess(c, e) == IF e = NullErr THEN c + 1 ELSE c

\* line 105, for an executor whose counter is c and whose captured exception is e
CounterAfterStep(c, e) == c + 1

\* (mutant) the threshold is compared one step late
ThresholdReached_Late(c) == c = K + 1

\* line 106
ThresholdReached(c) == c = K

\* how a call that throws `what` ends
Throw(what) == [kind |-> "throw", what |-> what]
Return(value) == [kind |-> "return", value |-> value]

\* lines 82-87: Run is entered and decides whether to initialize
RunCall ==
    /\ pc = "idle"
    /\ h.nRun < MaxSteps
    /\ pc' = IF RunMustInit THEN "InitVariables" ELSE "engine"
    /\ eptr' = NullErr
    /\ fetch_data' = "none"
    /\ result' = [kind |-> "running"]
    /\ caller' = "none"
    /\ twin' = [twin EXCEPT !.inited = MustInit(twin.counter), !.fired = FALSE,
                            !.eptr = NullErr]
    /\ h' = [h EXCEPT !.nRun = @ + 1, !.call = "Run", !.entry = drop_scope_counter_,
                      !.initRan = FALSE, !.initDone = FALSE, !.reclaimed = FALSE,
                      !.engineCalled = FALSE, !.engine = [kind |-> "none"],
                      !.incremented = FALSE, !.dropFired = FALSE, !.dropDone = FALSE,
                      !.justDropped = FALSE, !.waited = {}, !.ops = << >>,
                      !.resetDone = FALSE, !.fusedDone = FALSE, !.initFailed = FALSE,
                      !.prevInitFailed = h.initFailed,
                      !.prevOps = IF h.initFailed THEN h.ops ELSE << >>]
    /\ UNCHANGED << config, scopes, preserve_vars_, tmp_var_infos_, drop_scope_counter_,
                    busy, idx, ub >>

\* lines 84-87: InitVariables is called outside the try block, so an exception of the
\* Initializer leaves Run at once
InitFailurePc_Deferred == "count"
InitFailurePc == "idle"

\* (mutant) a slot that already has its type keeps what it holds
RECURSIVE InitPairs_KeepTyped(_, _, _)
InitPairs_KeepTyped(scope, pairs, k) ==
    IF k > Len(pairs) THEN scope
    ELSE InitPairs_KeepTyped(
             UpdateHandle(scope, pairs[k][1],
                          LAMBDA v : IF v.type = pairs[k][2] THEN v
                                     ELSE InitializeVariable(v, pairs[k][2])),
             pairs, k + 1)

\* lines 126-130 for one worker: every recorded (variable, type) pair is initialized
RECURSIVE InitPairs(_, _, _)
InitPairs(scope, pairs, k) ==
    IF k > Len(pairs) THEN scope
    ELSE InitPairs(UpdateHandle(scope, pairs[k][1],
                                LAMBDA v : InitializeVariable(v, pairs[k][2])),
                   pairs, k + 1)

\* a recorded handle of worker i whose variable is gone
DanglingPair(i) ==
    \E k \in 1 .. Len(tmp_var_infos_[i]) :
        ~IsLive(scopes[local_exec_scopes_[i]], tmp_var_infos_[i][k][1])

\* (mutant) the recorded slots are left as they are
ResetRecorded_Skip(sc) == sc

\* lines 126-130 on the heap
ResetRecorded(sc) ==
    [s \in DOMAIN sc |->
        IF \E i \in 1 .. Len(tmp_var_infos_) : local_exec_scopes_[i] = s
        THEN LET i == CHOOSE j \in 1 .. Len(tmp_var_infos_) : local_exec_scopes_[j] = s
             IN  InitPairs(sc[s], tmp_var_infos_[i], 1)
        ELSE sc[s]]

\* lines 125-137: the recorded slots are reset, then the graph's attributes are read
InitVariablesReset ==
    /\ pc = "InitVariables"
    /\ scopes' = ResetRecorded(scopes)
    /\ ub' = (ub \/ \E i \in 1 .. Len(tmp_var_infos_) : DanglingPair(i))
    /\ IF ~graph_.has_program_descs
       THEN /\ pc' = "engine"
            /\ h' = [h EXCEPT !.initRan = TRUE, !.resetDone = TRUE, !.initDone = TRUE,
                              !.cycleInits = @ + 1, !.prevInitFailed = FALSE,
                              !.prevOps = << >>]
            /\ result' = result
       ELSE \/ \* graph.Get of an attribute the graph does not have throws
               /\ ~graph_.has_fused_vars
               /\ pc' = InitFailurePc
               /\ h' = [h EXCEPT !.initRan = TRUE, !.resetDone = TRUE, !.initFailed = TRUE,
                                 !.prevInitFailed = FALSE, !.prevOps = << >>]
               /\ result' = Throw(EnforceNotMet)
            \/ \* the attribute is there, or graph.Get hands back an empty name set
               /\ pc' = "init_fused"
               /\ h' = [h EXCEPT !.initRan = TRUE, !.resetDone = TRUE]
               /\ result' = result
    /\ UNCHANGED << config, preserve_vars_, tmp_var_infos_, drop_scope_counter_, busy,
                    caller, idx, eptr, fetch_data, twin >>

\* Variable::GetMutable<LoDTensor>() of a variable that is untyped or dense
GetMutableLoDTensor(v) == IF v.type = NoType THEN InitializeVariable(v, LOD_TENSOR) ELSE v

\* lines 140-141 for one scope and one fused name
CreateFusedVar(scope, name) ==
    UpdateHandle(ScopeVar(scope, name), HandleOf(scope, name), GetMutableLoDTensor)

\* (mutant) only one of the fused names gets its variable
CreateFusedVars_OneName(scope, names) ==
    IF names = {} THEN scope
    ELSE CreateFusedVar(scope, CHOOSE m \in names : TRUE)

RECURSIVE CreateFusedVars(_, _)
CreateFusedVars(scope, names) ==
    IF names = {} THEN scope
    ELSE LET n == CHOOSE m \in names : TRUE
         IN  CreateFusedVars(CreateFusedVar(scope, n), names \ {n})

\* the first (program, op) position at or after (p, o); <<0, 0>> when there is none
RECURSIVE OpAtOrAfter(_, _)
OpAtOrAfter(p, o) ==
    IF p > Len(graph_.program_descs) THEN << 0, 0 >>
    ELSE IF o > Len(graph_.program_descs[p]) THEN OpAtOrAfter(p + 1, 1)
    ELSE << p, o >>

\* lines 140-141 found every fused variable that was there already and left it alone
FusedSlotsKept ==
    \A i \in Workers : \A f \in graph_.fused_vars :
        HasVar(scopes[local_exec_scopes_[i]], f) =>
            scopes'[local_exec_scopes_[i]].vars[f] = scopes[local_exec_scopes_[i]].vars[f]

\* lines 138-143: the fused variables are created in every transient scope
InitVariablesFused ==
    /\ pc = "init_fused"
    /\ scopes' = [s \in DOMAIN scopes |->
                    IF \E i \in Workers : local_exec_scopes_[i] = s
                    THEN CreateFusedVars(scopes[s], graph_.fused_vars)
                    ELSE scopes[s]]
    /\ IF OpAtOrAfter(1, 1) = << 0, 0 >> \/ NumWorkers = 0
       THEN /\ pc' = "engine"
            /\ idx' = idx
            /\ h' = [h EXCEPT !.fusedDone = TRUE, !.initDone = TRUE, !.cycleInits = @ + 1,
                              !.prevInitFailed = FALSE, !.prevOps = << >>,
                              !.fusedKept = FusedSlotsKept]
       ELSE /\ pc' = "init_ops"
            /\ idx' = << OpAtOrAfter(1, 1)[1], OpAtOrAfter(1, 1)[2], 1 >>
            /\ h' = [h EXCEPT !.fusedDone = TRUE, !.fusedKept = FusedSlotsKept]
    /\ UNCHANGED << config, preserve_vars_, tmp_var_infos_, drop_scope_counter_, busy,
                    caller, eptr, fetch_data, result, ub, twin >>

\* op->Run(scope, place): the operator fills its output variable
OpRun(scope, op, i) == UpdateHandle(scope, HandleOf(scope, op.out), LAMBDA v : WritePayload(v, i))

\* lines 145-152, one operator on one worker: it succeeds or throws
InitVariablesOp ==
    /\ pc = "init_ops"
    /\ LET p == idx[1]
           o == idx[2]
           i == idx[3]
           op == graph_.program_descs[p][o]
           lid == local_exec_scopes_[i]
           next == IF i < NumWorkers THEN << p, o, i + 1 >>
                   ELSE << OpAtOrAfter(p, o + 1)[1], OpAtOrAfter(p, o + 1)[2], 1 >>
       IN  \E ok \in BOOLEAN :
             \* places_[i] past the end of places_ is an out-of-range read
             /\ ub' = (ub \/ i > Len(places_))
             /\ IF ok /\ HasVar(scopes[lid], op.out)
                THEN /\ scopes' = [scopes EXCEPT ![lid] = OpRun(@, op, i)]
                     /\ result' = result
                     /\ IF next[1] = 0
                        THEN /\ pc' = "engine"
                             /\ idx' = idx
                             /\ h' = [h EXCEPT !.ops = Append(@, idx), !.initDone = TRUE,
                                               !.cycleInits = @ + 1,
                                               !.prevInitFailed = FALSE,
                                               !.prevOps = << >>]
                        ELSE /\ pc' = "init_ops"
                             /\ idx' = next
                             /\ h' = [h EXCEPT !.ops = Append(@, idx),
                                               !.prevInitFailed = FALSE,
                                               !.prevOps = << >>]
                ELSE /\ scopes' = scopes
                     /\ result' = Throw(OpError)
                     /\ pc' = InitFailurePc
                     /\ idx' = idx
                     /\ h' = [h EXCEPT !.ops = Append(@, idx), !.initFailed = TRUE,
                                       !.prevInitFailed = FALSE, !.prevOps = << >>]
    /\ UNCHANGED << config, preserve_vars_, tmp_var_infos_, drop_scope_counter_, busy,
                    caller, eptr, fetch_data, twin >>

\* what the step's operators leave in worker i's transient scope: payloads in the
\* declared variables, a temporary variable and a sub-scope
EngineWritesLocal(scope, i) ==
    [vars |-> (TmpName :> WritePayload(NewVariable(FreshId(scope)), i)) @@
              [n \in DOMAIN scope.vars |-> WritePayload(scope.vars[n], i)],
     kids |-> scope.kids \cup
              {[vars |-> (KidVarName :> WritePayload(NewVariable(1), i)), kids |-> {}]}]

\* ... and in a persistent scope: payloads in its variables
EngineWritesGlobal(scope) ==
    [scope EXCEPT !.vars = [n \in DOMAIN scope.vars |-> WritePayload(scope.vars[n], 1)]]

EngineWrites(sc) ==
    [s \in DOMAIN sc |->
        IF \E i \in Workers : local_exec_scopes_[i] = s
        THEN EngineWritesLocal(sc[s], CHOOSE i \in Workers : local_exec_scopes_[i] = s)
        ELSE IF \E i \in 1 .. Len(local_scopes_) : local_scopes_[i] = s
        THEN EngineWritesGlobal(sc[s])
        ELSE sc[s]]

PlaceSet == {places_[i] : i \in 1 .. Len(places_)}

\* lines 89-95: underlying_executor_->Run, whose failure is captured
EngineRun ==
    /\ pc = "engine"
    /\ \E work \in BOOLEAN :
         /\ scopes' = IF work THEN EngineWrites(scopes) ELSE scopes
         /\ busy' = IF work THEN PlaceSet ELSE busy
    /\ \/ \E out \in Outputs :
            /\ fetch_data' = out
            /\ eptr' = NullErr
            /\ h' = [h EXCEPT !.nEngine = @ + 1, !.sinceDrop = @ + 1,
                              !.engineCalled = TRUE, !.engine = Return(out)]
       \/ \E e \in EngineErrors :
            /\ fetch_data' = fetch_data
            /\ eptr' = e
            /\ h' = [h EXCEPT !.nEngine = @ + 1, !.sinceDrop = @ + 1,
                              !.engineCalled = TRUE, !.engine = Throw(e)]
    /\ \E e \in {NullErr} \cup EngineErrors : twin' = [twin EXCEPT !.eptr = e]
    /\ pc' = "count"
    /\ UNCHANGED << config, preserve_vars_, tmp_var_infos_, drop_scope_counter_,
                    caller, idx, result, ub >>

\* lines 105-108: the counter is incremented and compared with the threshold
Increment ==
    /\ pc = "count"
    /\ drop_scope_counter_' = CounterAfterStep(drop_scope_counter_, eptr)
    /\ IF ThresholdReached(drop_scope_counter_')
       THEN pc' = "drop" /\ caller' = "Run"
       ELSE pc' = "ret" /\ caller' = caller
    /\ LET c == CounterAfterStep(twin.counter, twin.eptr)
       IN  twin' = IF ThresholdReached(c)
                   THEN [twin EXCEPT !.counter = 0, !.fired = TRUE]
                   ELSE [twin EXCEPT !.counter = c]
    /\ h' = [h EXCEPT !.incremented = TRUE]
    /\ UNCHANGED << config, scopes, preserve_vars_, tmp_var_infos_, busy, idx, eptr,
                    fetch_data, result, ub >>

\* lines 118-122
RunReturn ==
    /\ pc = "ret"
    /\ result' = IF eptr # NullErr THEN Throw(eptr) ELSE Return(fetch_data)
    /\ pc' = "idle"
    /\ h' = [h EXCEPT !.justDropped = FALSE]
    /\ twin' = [twin EXCEPT !.eptr = NullErr]
    /\ UNCHANGED << config, scopes, preserve_vars_, tmp_var_infos_, drop_scope_counter_,
                    busy, caller, idx, eptr, fetch_data, ub >>

\* --------------------------------------------------- DropLocalExeScopes
\* the position after line 158: the waits of lines 159-161, when there are places
AfterDropBegin == IF Len(places_) = 0 THEN "erase" ELSE "wait"

\* (mutant) the reclaimer leaves the counter as it found it
CounterAfterDrop_Kept(c) == c

\* line 158
CounterAfterDrop(c) == 0

\* (mutant) the devices are not waited for
DropBegin_NoWait ==
    /\ pc = "drop"
    /\ drop_scope_counter_' = 0
    /\ idx' = 1
    /\ pc' = "erase"
    /\ h' = [h EXCEPT !.nDrop = @ + 1, !.sinceDrop = 0, !.cycleInits = 0, !.dropFired = TRUE,
                      !.waited = {}]
    /\ UNCHANGED << config, scopes, preserve_vars_, tmp_var_infos_, busy, caller, eptr,
                    fetch_data, result, ub, twin >>

\* lines 156-158
DropBegin ==
    /\ pc = "drop"
    /\ drop_scope_counter_' = CounterAfterDrop(drop_scope_counter_)
    /\ idx' = 1
    /\ pc' = AfterDropBegin
    /\ h' = [h EXCEPT !.nDrop = @ + 1, !.sinceDrop = 0, !.cycleInits = 0, !.dropFired = TRUE,
                      !.waited = {}]
    /\ UNCHANGED << config, scopes, preserve_vars_, tmp_var_infos_, busy, caller, eptr,
                    fetch_data, result, ub, twin >>

\* lines 159-161, one place: Wait() returns when the device is idle, or throws
DropWait ==
    /\ pc = "wait"
    /\ \/ /\ busy' = busy \ {places_[idx]}
          /\ h' = [h EXCEPT !.waited = @ \cup {places_[idx]}]
          /\ IF idx < Len(places_)
             THEN pc' = "wait" /\ idx' = idx + 1
             ELSE pc' = "erase" /\ idx' = 1
          /\ result' = result
       \/ /\ pc' = "idle"
          /\ result' = Throw(SyncError)
          /\ UNCHANGED << busy, h, idx >>
    /\ twin' = IF pc' = "idle" THEN [twin EXCEPT !.eptr = NullErr] ELSE twin
    /\ UNCHANGED << config, scopes, preserve_vars_, tmp_var_infos_, drop_scope_counter_,
                    caller, eptr, fetch_data, ub >>

\* lines 166-168: every preserved variable of the set is cleared
RECURSIVE ClearAll(_, _)
ClearAll(scope, handles) ==
    IF handles = {} THEN scope
    ELSE LET hd == CHOOSE x \in handles : TRUE
         IN  ClearAll(UpdateHandle(scope, hd, VariableClear), handles \ {hd})

\* (mutant) the preserved variables are kept with their contents
DropWorker_NoClear(scope, i) == DropKids(EraseVarsExcept(scope, preserve_vars_[i]))

\* (mutant) the reclaimer erases the preserved variables as well
DropWorker_EraseAll(scope, i) == DropKids(EraseVarsExcept(scope, {}))

\* lines 164-168 on worker i's transient scope
DropWorker(scope, i) ==
    ClearAll(DropKids(EraseVarsExcept(scope, preserve_vars_[i])), preserve_vars_[i])

\* (mutant) the reclaimer works on the persistent scope
DropTarget_Persistent(i) == local_scopes_[i]

\* the scope the reclaimer works on for worker i (line 164)
DropTarget(i) == local_exec_scopes_[i]

\* lines 163-170, one worker
DropErase ==
    /\ pc = "erase"
    /\ IF idx <= NumWorkers
       THEN /\ scopes' = [scopes EXCEPT ![DropTarget(idx)] = DropWorker(@, idx)]
            /\ h' = [h EXCEPT
                        !.reclaimed = @ \/ scopes'[DropTarget(idx)] # scopes[DropTarget(idx)],
                        !.dropDone = (idx >= NumWorkers),
                        !.justDropped = (idx >= NumWorkers)]
            /\ ub' = (ub \/ \E x \in preserve_vars_[idx] :
                               ~IsLive(EraseVarsExcept(scopes[DropTarget(idx)],
                                                       preserve_vars_[idx]), x))
       ELSE /\ UNCHANGED << scopes, ub >>
            /\ h' = [h EXCEPT !.dropDone = TRUE, !.justDropped = TRUE]
    /\ IF idx < NumWorkers
       THEN /\ idx' = idx + 1
            /\ pc' = "erase"
            /\ result' = result
       ELSE /\ idx' = idx
            /\ IF caller = "Run"
               THEN pc' = "ret" /\ result' = result
               ELSE pc' = "idle" /\ result' = Return("dropped")
    /\ UNCHANGED << config, preserve_vars_, tmp_var_infos_, drop_scope_counter_, busy,
                    caller, eptr, fetch_data, twin >>

\* DropLocalExeScopes called from outside Run, between steps
ExtDrop ==
    /\ pc = "idle"
    /\ h.nExt < MaxExtDrops
    /\ pc' = "drop"
    /\ caller' = "ext"
    /\ result' = [kind |-> "running"]
    /\ twin' = [twin EXCEPT !.counter = 0]
    /\ h' = [h EXCEPT !.nExt = @ + 1, !.call = "DropLocalExeScopes",
                      !.justDropped = FALSE, !.dropFired = FALSE, !.dropDone = FALSE,
                      !.reclaimed = FALSE]
    /\ UNCHANGED << config, scopes, preserve_vars_, tmp_var_infos_, drop_scope_counter_,
                    busy, idx, eptr, fetch_data, ub >>

\* ------------------------------------------------------- specifications
\* executors over well-formed workers, each with a persistent scope of its own,
\* before construction
Init ==
    \E nw \in 1 .. MaxW, k \in 1 .. MaxK, graph \in GraphChoices :
        InitWith(nw, nw, nw, k, StepVarInfos, {}, FALSE, graph)

Next ==
    \/ Construct
    \/ RunCall
    \/ InitVariablesReset
    \/ InitVariablesFused
    \/ InitVariablesOp
    \/ EngineRun
    \/ Increment
    \/ RunReturn
    \/ DropBegin
    \/ DropWait
    \/ DropErase
    \/ ExtDrop

Spec == Init /\ [][Next]_vars

\* construction alone, over every argument list the constructor accepts or rejects
InitCtor ==
    \E nw \in 1 .. MaxW, ne \in 1 .. MaxW, np \in 1 .. MaxW, infos \in VarInfoChoices,
       seed \in SUBSET {"w", "x"}, share \in BOOLEAN :
        InitWith(nw, ne, np, 1, infos, seed, share, FusedGraph)

NextCtor == Construct

SpecCtor == InitCtor /\ [][NextCtor]_vars


\* ------------------------------------------------- allocation accounting
MaxAlloc == 2
MaxArrayLen == 2

\* a variable type the accounting does not know (a reader, a raw value, ...)
OtherType == "other"

\* memory::Allocation::size() of allocation a
AllocSize(a) == IF a = SeedAlloc THEN 8 ELSE 4 * a

\* lines 29-41: the holders of one variable, by its type (0 is the null holder)
CollectVariableAllocations(v) ==
    IF v.type = LOD_TENSOR THEN {v.holders[1]}
    ELSE IF v.type = SELECTED_ROWS THEN {v.holders[1]}
    ELSE IF v.type = LOD_TENSOR_ARRAY THEN {v.holders[k] : k \in DOMAIN v.holders}
    ELSE {}

\* lines 43-53: the scope's own variables, then its kids, into one set
RECURSIVE CollectUniqueAllocations(_)
CollectUniqueAllocations(scope) ==
    UNION {CollectVariableAllocations(scope.vars[n]) : n \in DOMAIN scope.vars}
      \cup UNION {CollectUniqueAllocations(kid) : kid \in scope.kids}

\* lines 58-63: the sizes of the non-null members of the set are added up
RECURSIVE SumSizes(_)
SumSizes(allocation_set) ==
    IF allocation_set = {} THEN 0
    ELSE LET allocation == CHOOSE a \in allocation_set : TRUE
         IN  (IF allocation # 0 THEN AllocSize(allocation) ELSE 0)
               + SumSizes(allocation_set \ {allocation})

\* (mutant) every variable is sized on its own, and the scopes' totals are added
RECURSIVE GetScopeVarMemorySize_PerVariable(_)
GetScopeVarMemorySize_PerVariable(scope) ==
    LET RECURSIVE OverVars(_)
        OverVars(names) ==
            IF names = {} THEN 0
            ELSE LET n == CHOOSE m \in names : TRUE
                 IN  SumSizes(CollectVariableAllocations(scope.vars[n]))
                       + OverVars(names \ {n})
        RECURSIVE OverKids(_)
        OverKids(kids) ==
            IF kids = {} THEN 0
            ELSE LET kid == CHOOSE k \in kids : TRUE
                 IN  GetScopeVarMemorySize_PerVariable(kid) + OverKids(kids \ {kid})
    IN  OverVars(DOMAIN scope.vars) + OverKids(scope.kids)

\* lines 55-65
GetScopeVarMemorySize(scope) == SumSizes(CollectUniqueAllocations(scope))

\* the variables a scope may hold when it is measured
HolderVars(id, types, allocs) ==
    {[id |-> id, type |-> t, holders |-> << a >>] : t \in types, a \in allocs}
ArrayVars(id) ==
    {[id |-> id, type |-> LOD_TENSOR_ARRAY, holders |-> hs] :
        hs \in UNION {[1 .. n -> 0 .. MaxAlloc] : n \in 0 .. MaxArrayLen}}
AnyVars(id) ==
    {NewVariable(id)} \cup ArrayVars(id)
      \cup HolderVars(id, {LOD_TENSOR, SELECTED_ROWS, OtherType}, 0 .. MaxAlloc)

ScopeOf(names, kids) == [vars |-> names, kids |-> kids]

\* a kid of a kid, a kid with or without it, and a second kid
GrandKids == {ScopeOf("g" :> v, {}) : v \in HolderVars(1, {LOD_TENSOR}, 1 .. MaxAlloc)}
FirstKids ==
    {ScopeOf(KidVarName :> v, gk) :
        v \in HolderVars(1, {LOD_TENSOR, SELECTED_ROWS, OtherType}, 0 .. MaxAlloc),
        gk \in {{}} \cup {{g} : g \in GrandKids}}
SecondKids == {ScopeOf("j" :> v, {}) : v \in HolderVars(1, {LOD_TENSOR}, 1 .. MaxAlloc)}
KidChoices ==
    {{}} \cup {{k1} : k1 \in FirstKids}
         \cup {{k1, k2} : k1 \in {k \in FirstKids : k.kids = {}}, k2 \in SecondKids}

\* the scopes that are measured: one or two own variables and up to two levels of kids
MeasuredScopes ==
    {ScopeOf("a" :> v, kids) : v \in AnyVars(1), kids \in KidChoices}
      \cup {ScopeOf(("a" :> v) @@ ("b" :> w), kids) :
               v \in AnyVars(1), w \in HolderVars(2, {LOD_TENSOR}, 0 .. MaxAlloc),
               kids \in KidChoices}

\* lines 97-103 for one transient scope: its size is computed for the log
LogMemorySize ==
    /\ pc = "measure"
    /\ pc' = "measured"
    /\ result' = Return(GetScopeVarMemorySize(scopes[local_exec_scopes_[1]]))
    /\ UNCHANGED << config, scopes, preserve_vars_, tmp_var_infos_, drop_scope_counter_,
                    busy, caller, idx, eptr, fetch_data, ub, twin, h >>

InitAcct ==
    \E measured \in MeasuredScopes :
        /\ strategy_ = [num_iteration_per_drop_scope_ |-> 1]
        /\ local_scopes_ = << 1 >>
        /\ local_exec_scopes_ = << TransientId(1) >>
        /\ var_infos_ = << >>
        /\ places_ = << 1 >>
        /\ graph_ = NoGraphAttrs
        /\ scopes = [s \in 1 .. 2 * MaxW |->
                        IF s = TransientId(1) THEN measured ELSE EmptyScope]
        /\ preserve_vars_ = << {} >>
        /\ tmp_var_infos_ = << << >> >>
        /\ drop_scope_counter_ = 0
        /\ busy = {}
        /\ pc = "measure"
        /\ caller = "none"
        /\ idx = 0
        /\ eptr = NullErr
        /\ fetch_data = "none"
        /\ result = [kind |-> "running"]
        /\ ub = FALSE
        /\ twin = [counter |-> 0, eptr |-> NullErr, fired |-> FALSE, inited |-> FALSE,
                   preserve |-> << {} >>]
        /\ h = [NoHistory EXCEPT !.seeded = scopes]

NextAcct == LogMemorySize

SpecAcct == InitAcct /\ [][NextAcct]_vars

\* ----------------------------------------------------------- properties
RunEnded == pc = "idle" /\ h.call = "Run"

InRunAfterInit == h.call = "Run" /\ pc \in {"engine", "count", "drop", "wait", "erase", "ret"}

PersistentIds == {local_scopes_[i] : i \in 1 .. Len(local_scopes_)}

\* the names declared non-persistable
TransientNames == {var_infos_[k].name_ : k \in {j \in 1 .. Len(var_infos_) : ~var_infos_[j].persistable_}}

\* C1: with n the number of Run calls that have reached the engine (each call
\* succeeding or failing) and no reclamation requested from outside Run, whenever
\* the executor is between calls DropLocalExeScopes has been run floor(n/K) times
\* and the counter is n mod K.
C1_ReclaimCadence ==
    (pc = "idle" /\ h.nExt = 0) =>
        /\ h.nDrop = h.nEngine \div K
        /\ drop_scope_counter_ = h.nEngine % K

\* K = 3, four steps, the last one failing: one reclamation, counter 1
C1_Witness ==
    /\ pc = "idle" /\ h.nExt = 0 /\ K = 3 /\ NumWorkers = 2
    /\ h.nRun = 4 /\ h.nEngine = 4 /\ h.nDrop = 1 /\ drop_scope_counter_ = 1
    /\ result.kind = "throw" /\ result.what \in EngineErrors

\* C2: a Run whose engine call failed ends by raising the engine's failure, after
\* the increment and after the reclaimer (when due) has completed; a Run whose
\* engine call succeeded returns the engine's outputs.
C2_EngineOutcomeDelivered ==
    (RunEnded /\ h.engineCalled) =>
        IF h.engine.kind = "throw"
        THEN /\ result = Throw(h.engine.what)
             /\ h.incremented
             /\ (h.entry + 1 = K => h.dropDone)
        ELSE result = Return(h.engine.value)

\* C3: in a Run whose engine call failed, the failure Run raises is the engine's,
\* whatever happens in the bookkeeping of that Run.
C3_EngineFailureNeverMasked ==
    (RunEnded /\ h.engineCalled /\ h.engine.kind = "throw") =>
        (result.kind = "throw" /\ result.what = h.engine.what)

\* C4: right after DropLocalExeScopes has completed, every worker's transient
\* scope holds exactly the preserved variables, under the declared non-persistable
\* names, each with no holder, and has no kids.
C4_AfterReclaim ==
    h.justDropped =>
        \A i \in Workers :
            LET sc == scopes[local_exec_scopes_[i]]
            IN  /\ LiveIds(sc) = preserve_vars_[i]
                /\ DOMAIN sc.vars = TransientNames
                /\ \A n \in DOMAIN sc.vars :
                      sc.vars[n].holders = << >> /\ sc.vars[n].type = NoType
                /\ sc.kids = {}

C4_Witness ==
    /\ h.justDropped /\ h.reclaimed /\ NumWorkers = 2 /\ graph_ = FusedGraph
    /\ h.engineCalled /\ caller = "Run"

\* C5: while the reclaimer erases and clears (from its first worker on), every
\* place of places_ has been waited for and is idle; and a reclaimer started by
\* Run starts after the engine call of that step has returned.
C5_SyncBeforeErase ==
    /\ pc = "erase" => (h.waited = PlaceSet /\ busy \cap PlaceSet = {})
    /\ (pc \in {"drop", "wait", "erase"} /\ caller = "Run") =>
           (h.engineCalled /\ h.engine.kind \in {"return", "throw"})

C5_Witness ==
    /\ pc = "erase" /\ idx = 1 /\ caller = "Run" /\ NumWorkers = 2
    /\ h.engine.kind = "throw"
    /\ HasVar(scopes[local_exec_scopes_[1]], TmpName)

\* C6 (as amended): the initializer is executed in a Run exactly when the counter
\* is 0 on entry, and has completed before the engine is called; the engine is
\* called in every Run except one that the initializer aborts, which raises with
\* the counter still 0; between calls the counter is the number of engine calls
\* since construction or the last reclamation, so a buffering cycle that reached
\* the engine has had exactly one completed initialization.
C6_InitAtCycleStart ==
    /\ InRunAfterInit => ((h.initRan <=> h.entry = 0) /\ (h.initRan => h.initDone))
    /\ RunEnded =>
          /\ h.initRan <=> h.entry = 0
          /\ \/ h.engineCalled
             \/ /\ h.initRan /\ ~h.initDone
                /\ result.kind = "throw" /\ result.what \in {OpError, EnforceNotMet}
                /\ drop_scope_counter_ = 0
    /\ pc = "idle" =>
          /\ drop_scope_counter_ = h.sinceDrop
          /\ h.sinceDrop > 0 => h.cycleInits = 1
    /\ h.cycleInits <= 1

C6_Witness ==
    /\ RunEnded /\ h.nRun >= 3 /\ h.nDrop >= 1 /\ h.initRan /\ h.initDone
    /\ h.engineCalled /\ graph_ = FusedGraph /\ h.sinceDrop = 1

\* C6 (as stated): ... and the engine is called in every Run.
C6_EngineCalledInEveryRun ==
    /\ InRunAfterInit => ((h.initRan <=> h.entry = 0) /\ (h.initRan => h.initDone))
    /\ RunEnded => ((h.initRan <=> h.entry = 0) /\ h.engineCalled)

\* C7: the bookkeeping of the twin executor, whose engine calls fail or succeed
\* independently of this executor's, is the same after every step: the counter,
\* whether the step reclaimed, whether the step initialized, the preserved sets.
C7_BookkeepingIndependent ==
    pc \in {"ret", "idle"} =>
        /\ twin.counter = drop_scope_counter_
        /\ twin.preserve = preserve_vars_
        /\ h.call = "Run" => (twin.fired = h.dropFired /\ twin.inited = (h.entry = 0))

C7_Witness ==
    /\ pc = "ret" /\ eptr # NullErr /\ twin.eptr = NullErr
    /\ h.dropFired /\ h.nRun >= 2 /\ twin.fired

\* C8: after construction, for every worker and declared variable: a persistable
\* name is in the worker's persistent scope, and is not in its transient scope;
\* a non-persistable name is in the transient scope, its handle is in the
\* preserved set and recorded with its type, and the constructor did not create
\* it in the persistent scope.
C8_OnePlacePerWorker ==
    pc = "idle" =>
        \A i \in 1 .. Len(local_scopes_), k \in 1 .. Len(var_infos_) :
            LET info == var_infos_[k]
                sid == local_scopes_[i]
                lid == local_exec_scopes_[i]
                created == {h.created[c] : c \in 1 .. Len(h.created)}
            IN  IF info.persistable_
                THEN /\ HasVar(scopes[sid], info.name_)
                     /\ ~HasVar(scopes[lid], info.name_)
                     /\ << lid, info.name_ >> \notin created
                     /\ preserve_vars_[i] \subseteq LiveIds(scopes[lid])
                ELSE /\ HasVar(scopes[lid], info.name_)
                     /\ scopes[lid].vars[info.name_].id \in preserve_vars_[i]
                     /\ \E q \in 1 .. Len(tmp_var_infos_[i]) :
                           tmp_var_infos_[i][q] =
                              << scopes[lid].vars[info.name_].id, info.type_ >>
                     /\ << sid, info.name_ >> \notin created
                     /\ HasVar(scopes[sid], info.name_) <=> HasVar(h.seeded[sid], info.name_)

C8_Witness ==
    /\ pc = "idle" /\ Len(local_scopes_) = 2 /\ Len(var_infos_) = 3
    /\ \E k \in 1 .. Len(var_infos_) : var_infos_[k].persistable_
    /\ \E k \in 1 .. Len(var_infos_) : ~var_infos_[k].persistable_

\* C9: the constructor creates no variable twice, creates no persistable variable
\* that was in the persistent scope beforehand and leaves such a variable as it
\* was; classifying again changes no persistent scope.
C9_ClassifyIdempotent ==
    pc = "idle" =>
        /\ \A a, b \in 1 .. Len(h.created) : h.created[a] = h.created[b] => a = b
        /\ \A s \in PersistentIds :
              /\ \A n \in DOMAIN h.seeded[s].vars :
                    /\ HasVar(scopes[s], n)
                    /\ scopes[s].vars[n] = h.seeded[s].vars[n]
                    /\ \A c \in 1 .. Len(h.created) : h.created[c] # << s, n >>
              /\ PrepareLocalExeScopes(scopes).scopes[s] = scopes[s]
        /\ \A i \in 1 .. Len(local_scopes_), k \in 1 .. Len(var_infos_) :
              (var_infos_[k].persistable_
                 /\ ~HasVar(h.seeded[local_scopes_[i]], var_infos_[k].name_)) =>
                \E c \in 1 .. Len(h.created) :
                    h.created[c] = << local_scopes_[i], var_infos_[k].name_ >>

\* two workers share a persistent scope that holds one declared persistable name
\* beforehand and gets another from the constructor
C9_Witness ==
    /\ pc = "idle" /\ Len(local_scopes_) = 2 /\ local_scopes_[1] = local_scopes_[2]
    /\ \E a, b \in 1 .. Len(var_infos_) :
          /\ var_infos_[a].persistable_ /\ var_infos_[b].persistable_
          /\ HasVar(h.seeded[1], var_infos_[a].name_)
          /\ ~HasVar(h.seeded[1], var_infos_[b].name_)

\* C10: once constructed, every variable a persistent scope held at the end of
\* construction is still there, the same Variable with its type.
C10_PersistentKept ==
    pc \notin {"new", "ctor_failed"} =>
        \A s \in PersistentIds :
            \A n \in DOMAIN h.atCtor[s].vars :
                /\ HasVar(scopes[s], n)
                /\ scopes[s].vars[n].id = h.atCtor[s].vars[n].id
                /\ scopes[s].vars[n].type = h.atCtor[s].vars[n].type

C10_Witness ==
    /\ h.justDropped /\ h.reclaimed /\ h.nExt = 1 /\ h.nDrop >= 2
    /\ \E s \in PersistentIds : \E n \in DOMAIN scopes[s].vars :
          scopes[s].vars[n].holders # EmptyHolders(scopes[s].vars[n].type)

\* the names of the variables of worker i's transient scope, in heap sc, whose
\* handles are in preserve_vars_[i]
PreservedNames(sc, i) ==
    {n \in DOMAIN sc[local_exec_scopes_[i]].vars :
        sc[local_exec_scopes_[i]].vars[n].id \in preserve_vars_[i]}

\* C11: once constructed, and after any sequence of Run, Initializer and Reclaimer
\* executions, each worker's preserved set is the set of handles construction put
\* in it, every one of them still a variable of the worker's transient scope, and
\* the names they stand for are the names they stood for at the end of construction:
\* exactly the declared non-persistable names.
C11_PreservedSetFixed ==
    pc \notin {"new", "ctor_failed"} =>
        \A i \in Workers :
            /\ preserve_vars_[i] = twin.preserve[i]
            /\ preserve_vars_[i] \subseteq LiveIds(scopes[local_exec_scopes_[i]])
            /\ PreservedNames(scopes, i) = PreservedNames(h.atCtor, i)
            /\ PreservedNames(scopes, i) = TransientNames
            /\ Cardinality(preserve_vars_[i]) = Cardinality(TransientNames)

\* two workers, after reclamations by Run and from outside, with a step run since
\* (the transient scopes hold a temporary again)
C11_Witness ==
    /\ pc = "idle" /\ NumWorkers = 2 /\ h.nDrop >= 2 /\ h.nExt = 1
    /\ h.call = "Run" /\ ~h.dropFired /\ h.initDone
    /\ \A i \in Workers : HasVar(scopes[local_exec_scopes_[i]], TmpName)

\* C12: a constructor call whose three lists (persistent scopes, transient scopes,
\* places) are not all of one length fails at once, before any variable is
\* classified or created, and so in a constructed executor every worker index has a
\* persistent scope, a transient scope and a place.
C12_WorkerSetValidated ==
    /\ (/\ pc # "new"
        /\ ~(/\ Len(local_scopes_) = Len(local_exec_scopes_)
             /\ Len(local_exec_scopes_) = Len(places_)))
          => (/\ pc = "ctor_failed"
              /\ result = Throw(EnforceNotMet)
              /\ scopes = h.seeded
              /\ preserve_vars_ = << >> /\ tmp_var_infos_ = << >>)
    /\ pc = "idle" =>
          \A i \in 1 .. Len(local_exec_scopes_) :
              i \in DOMAIN local_scopes_ /\ i \in DOMAIN places_

\* variable v holds allocation a in a holder the accounting reads
Holds(v, a) ==
    /\ v.type \in {LOD_TENSOR, SELECTED_ROWS, LOD_TENSOR_ARRAY}
    /\ \E k \in DOMAIN v.holders : v.holders[k] = a

\* allocation a is held by a variable of the scope or of one of its descendants
RECURSIVE Reaches(_, _)
Reaches(scope, a) ==
    \/ \E n \in DOMAIN scope.vars : Holds(scope.vars[n], a)
    \/ \E kid \in scope.kids : Reaches(kid, a)

\* the sizes of the allocations 1 .. a the scope reaches, each counted once
RECURSIVE ReachedSize(_, _)
ReachedSize(scope, a) ==
    IF a = 0 THEN 0
    ELSE (IF Reaches(scope, a) THEN AllocSize(a) ELSE 0) + ReachedSize(scope, a - 1)

\* C13: GetScopeVarMemorySize of a scope is the sum of the sizes of the distinct
\* non-null allocations held by the dense, sparse-rows and array variables of the
\* scope and of all its descendants, an allocation shared by several variables or
\* scopes counted once, untyped variables, null holders and variables of other types
\* adding nothing; and measuring leaves the scopes as they were.
C13_MemorySize ==
    pc = "measured" =>
        /\ result = Return(ReachedSize(h.seeded[local_exec_scopes_[1]], MaxAlloc))
        /\ scopes = h.seeded

\* one allocation held by a variable of the scope, inside an array twice, and by a
\* variable of a kid's kid, next to a null holder and a variable of another type
C13_Witness ==
    /\ pc = "measured"
    /\ LET scope == scopes[local_exec_scopes_[1]]
       IN  /\ scope.vars["a"].type = LOD_TENSOR_ARRAY
           /\ scope.vars["a"].holders = << 1, 1 >>
           /\ HasVar(scope, "b") /\ scope.vars["b"].holders = << 0 >>
           /\ \E kid \in scope.kids :
                 /\ kid.vars[KidVarName].type = OtherType
                 /\ kid.vars[KidVarName].holders = << 2 >>
                 /\ \E gk \in kid.kids : gk.vars["g"].holders = << 1 >>
    /\ result = Return(AllocSize(1))

\* the variable behind the k-th recorded pair of worker i
RecordedVar(i, k) ==
    LET scope == scopes[local_exec_scopes_[i]]
    IN  scope.vars[NameOfHandle(scope, tmp_var_infos_[i][k][1])]

\* the k-th recorded slot of worker i has its declared type and no contents
TypedAndEmpty(i, k) ==
    /\ IsLive(scopes[local_exec_scopes_[i]], tmp_var_infos_[i][k][1])
    /\ RecordedVar(i, k).type = tmp_var_infos_[i][k][2]
    /\ RecordedVar(i, k).holders = EmptyHolders(tmp_var_infos_[i][k][2])

\* a fused-initialization operator of this Run wrote the k-th recorded slot of worker i
WrittenByInitOp(i, k) ==
    \E j \in 1 .. Len(h.ops) :
        /\ h.ops[j][3] = i
        /\ HandleOf(scopes[local_exec_scopes_[i]],
                    graph_.program_descs[h.ops[j][1]][h.ops[j][2]].out)
             = tmp_var_infos_[i][k][1]

\* C14 (as stated): whenever the engine is about to be invoked, on any step, every
\* recorded transient slot of every worker has its declared type and is empty.
C14_SlotsEmptyAtEveryStep ==
    pc = "engine" =>
        \A i \in Workers : \A k \in 1 .. Len(tmp_var_infos_[i]) : TypedAndEmpty(i, k)

\* C14 (amended): when the engine is about to be invoked on the first step of a
\* cycle (Run entered with the counter at 0), every recorded transient slot of every
\* worker has its declared type, and is empty unless a fused-initialization operator
\* of that Run has written it.
C14_SlotsResetAtCycleStart ==
    (pc = "engine" /\ h.call = "Run" /\ h.entry = 0) =>
        \A i \in Workers : \A k \in 1 .. Len(tmp_var_infos_[i]) :
            /\ IsLive(scopes[local_exec_scopes_[i]], tmp_var_infos_[i][k][1])
            /\ RecordedVar(i, k).type = tmp_var_infos_[i][k][2]
            /\ TypedAndEmpty(i, k) \/ WrittenByInitOp(i, k)

\* the first step after a reclamation, two workers: the engine is about to be invoked
\* with one recorded slot empty and another filled by a fused-initialization operator
C14_Witness ==
    /\ pc = "engine" /\ h.call = "Run" /\ h.entry = 0 /\ h.nDrop >= 1 /\ NumWorkers = 2
    /\ \A i \in Workers :
          /\ \E k \in 1 .. Len(tmp_var_infos_[i]) : TypedAndEmpty(i, k)
          /\ \E k \in 1 .. Len(tmp_var_infos_[i]) :
                ~TypedAndEmpty(i, k) /\ WrittenByInitOp(i, k)

\* the reset loop of the Initializer has just run: nothing has written a slot since
JustReset == h.call = "Run" /\ h.resetDone /\ h.ops = << >> /\ ~h.engineCalled

\* C15 (as stated): when the Initializer has completed, every recorded variable of
\* every worker is in the empty state of its declared type, and the recorded pairs
\* are the pairs construction recorded.
C15_EmptyWhenInitializerCompletes ==
    (pc = "engine" /\ h.call = "Run" /\ h.initDone) =>
        /\ \A i \in Workers : \A k \in 1 .. Len(tmp_var_infos_[i]) : TypedAndEmpty(i, k)
        /\ tmp_var_infos_ = h.tmpAtCtor

\* C15 (amended): when the reset loop of the Initializer has completed, every recorded
\* variable of every worker is in the empty state of its declared type, whatever it
\* held before; and at no point of a Run has the list of recorded pairs changed.
C15_EmptyAfterReset ==
    /\ JustReset =>
          \A i \in Workers : \A k \in 1 .. Len(tmp_var_infos_[i]) : TypedAndEmpty(i, k)
    /\ pc \notin {"new", "ctor_failed"} => tmp_var_infos_ = h.tmpAtCtor

\* two workers; the Initializer of the previous Run was aborted by its last operator,
\* after an operator had filled a recorded slot, and the reset loop has run again
C15_Witness ==
    /\ JustReset /\ pc = "init_fused" /\ NumWorkers = 2
    /\ h.prevInitFailed /\ Len(h.prevOps) = 6 /\ h.prevOps[5] = << 2, 1, 1 >>
    /\ \A k \in 1 .. Len(tmp_var_infos_[1]) : TypedAndEmpty(1, k)

\* the graph carries both fused-initialization attributes
HasFusedInit == graph_.has_program_descs /\ graph_.has_fused_vars

\* every fused variable is a dense slot of every worker's transient scope
FusedSlotsExist ==
    \A i \in Workers : \A f \in graph_.fused_vars :
        /\ HasVar(scopes[local_exec_scopes_[i]], f)
        /\ scopes[local_exec_scopes_[i]].vars[f].type = LOD_TENSOR

\* how many times operator o of sub-program p has been run for worker i
TimesRun(p, o, i) ==
    Cardinality({j \in 1 .. Len(h.ops) : h.ops[j] = << p, o, i >>})

\* C16: with fused-initialization sub-programs, within each Initializer the reset of
\* the recorded slots comes first, then the creation of the fused variables (an
\* existing slot is kept), then the operators: whenever an operator is about to
\* run or has run, the reset is over and (until the engine is invoked) every fused
\* variable is a dense slot of every worker's transient scope; no operator runs more
\* than once for a worker; and
\* when the Initializer completes every operator of every sub-program has run
\* exactly once for each worker, on that worker's transient scope and with a place
\* of that worker.
C16_InitializerOrder ==
    (HasFusedInit /\ h.call = "Run") =>
        /\ (pc = "init_fused" \/ h.fusedDone) => h.resetDone
        /\ (pc = "init_ops" \/ h.ops # << >>) =>
              /\ h.resetDone /\ h.fusedDone /\ h.fusedKept
              /\ ~h.engineCalled => FusedSlotsExist
        /\ \A j \in 1 .. Len(h.ops) : TimesRun(h.ops[j][1], h.ops[j][2], h.ops[j][3]) = 1
        /\ (pc = "engine" /\ h.initDone) =>
              /\ FusedSlotsExist /\ ~ub
              /\ \A p \in DOMAIN graph_.program_descs :
                    \A o \in DOMAIN graph_.program_descs[p] :
                       \A i \in Workers :
                          /\ TimesRun(p, o, i) = 1
                          /\ i \in DOMAIN places_
                          /\ scopes[local_exec_scopes_[i]]
                                .vars[graph_.program_descs[p][o].out].holders = << i >>

\* two workers, after a reclamation: the Initializer has completed, three operators
\* run for each worker
C16_Witness ==
    /\ HasFusedInit /\ h.call = "Run" /\ pc = "engine" /\ h.initDone
    /\ NumWorkers = 2 /\ h.nDrop >= 1 /\ Len(h.ops) = 6

\* C17: when the graph lacks the fused-variable names, the initialization
\* sub-programs, or both, a Run that executes the Initializer gets the recorded slots
\* reset and nothing else: no fused variable is created, no operator is run and the
\* Initializer raises no error.
C17_FusedMetadataOptional ==
    (~HasFusedInit /\ h.call = "Run" /\ h.initRan) =>
        /\ h.resetDone
        /\ pc \notin {"init_fused", "init_ops"}
        /\ h.ops = << >>
        /\ ~h.initFailed
        /\ \A i \in Workers : \A f \in graph_.fused_vars :
              ~HasVar(scopes[local_exec_scopes_[i]], f)

\* C18: in every state of a constructed executor, whatever Runs and reclamations
\* came before, every handle recorded for a worker is in that worker's preserved
\* set and is the variable of the worker's transient scope it was at construction,
\* under the same name; the preserved set is within the scope's variables; and no
\* Initializer has reset a handle whose variable had been erased.
C18_SlotIdentityStable ==
    pc \notin {"new", "ctor_failed"} =>
        /\ ~ub
        /\ \A i \in Workers :
              /\ preserve_vars_[i] \subseteq LiveIds(scopes[local_exec_scopes_[i]])
              /\ \A k \in 1 .. Len(tmp_var_infos_[i]) :
                    LET hd == tmp_var_infos_[i][k][1]
                    IN  /\ hd \in preserve_vars_[i]
                        /\ IsLive(scopes[local_exec_scopes_[i]], hd)
                        /\ IsLive(h.atCtor[local_exec_scopes_[i]], hd)
                        /\ NameOfHandle(scopes[local_exec_scopes_[i]], hd)
                             = NameOfHandle(h.atCtor[local_exec_scopes_[i]], hd)

\* two workers: the Initializer has completed again after reclamations by Run and
\* from outside, which erased temporaries and fused variables around the slots
C18_Witness ==
    /\ pc = "engine" /\ h.call = "Run" /\ h.initDone /\ NumWorkers = 2
    /\ h.nDrop >= 2 /\ h.nExt = 1 /\ graph_ = FusedGraph
    /\ \A i \in Workers : ~HasVar(scopes[local_exec_scopes_[i]], TmpName)

\* C19: a Run whose Initializer fails ends there and then with that failure: the
\* engine has not been called, nothing is captured for later, the counter has not
\* been incremented and is 0, the reclaimer has not run; and the Run that follows
\* finds the counter at 0 and executes the Initializer again.
C19_InitializerFailurePropagates ==
    /\ (h.call = "Run" /\ h.initFailed) =>
          /\ pc = "idle"
          /\ result \in {Throw(OpError), Throw(EnforceNotMet)}
          /\ ~h.engineCalled /\ eptr = NullErr
          /\ ~h.incremented /\ drop_scope_counter_ = 0 /\ h.entry = 0
          /\ ~h.dropFired /\ ~h.reclaimed
          /\ RunMustInit
    /\ (h.call = "Run" /\ h.prevInitFailed) =>
          /\ h.entry = 0
          /\ pc \in {"InitVariables", "init_fused", "init_ops"}

\* the Initializer of a Run is at work again, the previous Run's Initializer having
\* been aborted by an operator in a cycle after the first
C19_Witness ==
    /\ h.call = "Run" /\ h.prevInitFailed /\ h.prevOps # << >>
    /\ pc = "init_fused" /\ h.resetDone /\ h.nDrop >= 1 /\ drop_scope_counter_ = 0

\* C20: for a graph with both fused-initialization attributes, whenever Run is about
\* to invoke the engine every fused variable is a variable of every worker's
\* transient scope, whatever Runs and reclamations (by Run or from outside, at any
\* counter value) came before; and from the moment a reclamation has reset the
\* counter until it returns, and after it has returned, the counter is 0.
C20_FusedSlotsAtEngine ==
    /\ (HasFusedInit /\ h.call = "Run" /\ pc = "engine") =>
          \A i \in Workers : \A f \in graph_.fused_vars :
              HasVar(scopes[local_exec_scopes_[i]], f)
    /\ (pc \in {"wait", "erase"} \/ (pc = "idle" /\ h.dropFired)) =>
          drop_scope_counter_ = 0

\* K = 3, two workers: the first Run reached the engine, DropLocalExeScopes was then
\* called from outside with the counter at 1 and erased the fused variables, and the
\* second Run is about to invoke the engine
C20_Witness ==
    /\ HasFusedInit /\ K = 3 /\ NumWorkers = 2
    /\ h.call = "Run" /\ pc = "engine" /\ h.entry = 0
    /\ h.nRun = 2 /\ h.nEngine = 1 /\ h.nExt = 1 /\ h.nDrop = 1

====
